---- MODULE Spec2Model ----
(***************************************************************************)
(* Message store (teleton/db.py, bot/db.py), the /summary cycle of the    *)
(* telebot bot (bot/main_telebot.py, bot/gigachat.py) and the ingestion    *)
(* process (teleton/main.py).  The store is the single SQLite table        *)
(* `messages`; the Telethon process inserts into it from its backfill and  *)
(* its live handler, the bot process reads the unsummarized rows and marks *)
(* them.                                                                   *)
(***************************************************************************)
EXTENDS Integers, Sequences, FiniteSets, TLC

\* ------------------------------------------------------------------ bounds
\* Platform message ids are 1..MaxId.
MaxId == 2
\* Limits handed to fetch_unsummarized are 1..MaxLimit.
MaxLimit == 2

Ids == 1..MaxId
Limits == 1..MaxLimit
\* Two chats, so that one message id can be offered from two chats.
Chats == {100, 200}
\* Outcome of opening the database file and running a statement.
IoOutcomes == {"ok", "error"}
\* Handler threads of the bot that may run handle_summary at the same time.
Workers == {"w1", "w2"}

VARIABLES
    columns,   \* columns of table messages; {} when the table does not exist
    rows,      \* the rows of table messages
    tieAsc,    \* how the engine orders rows of equal date (fixed for a database)
    ret,       \* the last direct call of the store: what was called, what it
               \* returned and whether it raised / logged an error
    telPc,     \* position of teleton main(): "start" | "running" | "stopped"
    botPc,     \* position of bot main(): "start" | "polling"
    cyc,       \* per handler thread: position inside handle_summary and its locals
    handed,    \* history: ids held by the batch of a delivered summary (.once),
               \* and by the batches of two or more delivered summaries (.again)
    col,       \* the call of collect_messages in teleton main(): position and locals
    listener   \* how teleton main() ended: what ended it and what main() reported

vars == <<columns, rows, tieAsc, ret, telPc, botPc, cyc, handed, col, listener>>

\* ------------------------------------------------------------------ schema
AllColumns == {"id", "chat_id", "sender", "sender_id", "text", "date", "summarized"}

\* Tables an earlier deployment may have left behind: none, or one lacking the
\* columns that were added later.
LegacyColumns ==
    { {},
      AllColumns \ {"summarized"},
      AllColumns \ {"sender_id"},
      AllColumns \ {"summarized", "sender_id"},
      AllColumns }

\* CREATE TABLE IF NOT EXISTS messages (...) : a missing table is created with
\* every column, an existing one is left as it is.
CreateTableIfNotExists(cols) == IF cols = {} THEN AllColumns ELSE cols

\* PRAGMA table_info + ALTER TABLE ADD COLUMN for summarized and sender_id.
AddMissingColumns(cols) == cols \cup {"summarized", "sender_id"}

\* NULL, and the value of a column the table does not have.
Null == -1

\* DROP TABLE before CREATE TABLE: the rows of an existing table are lost.
RowsAfterDropAndCreate(cols, rs) == {}

\* CREATE TABLE IF NOT EXISTS: a new table is empty, the rows of an existing
\* table stay.
RowsAfterCreate(cols, rs) == IF cols = {} THEN {} ELSE rs

\* ALTER TABLE ADD COLUMN summarized INTEGER DEFAULT 0 gives the existing
\* rows 0, ADD COLUMN sender_id INTEGER gives them NULL; a column the table
\* has is not touched.
RowsAfterAlter(cols, rs) ==
    {[r EXCEPT !.summarized = IF "summarized" \in cols THEN @ ELSE 0,
               !.sender_id = IF "sender_id" \in cols THEN @ ELSE Null] : r \in rs}

\* ------------------------------------------------------------------ rows
PersonText == "hi"
Placeholder == "[media or no text]"

\* The argument tuples save_message is called with.  Two kinds of message are
\* offered for every (id, chat_id): an earlier text message of a person, and a
\* later channel post without text (sender = chat title, sender_id = chat id,
\* placeholder text).  Dates are the stored `date` values: equal across ids
\* (ties) and different (strict order).
SaveArgs ==
    { [id |-> i, chat_id |-> c, sender |-> "Ann", sender_id |-> 7,
       text |-> PersonText, date |-> 1] : i \in Ids, c \in Chats }
    \cup
    { [id |-> i, chat_id |-> c, sender |-> "Team Chat", sender_id |-> c,
       text |-> Placeholder, date |-> 2] : i \in Ids, c \in Chats }

\* VALUES (?, ?, ?, ?, ?, ?, 1): the row is stored as already summarized.
NewRowSummarized(m) ==
    [id |-> m.id, chat_id |-> m.chat_id, sender |-> m.sender,
     sender_id |-> m.sender_id, text |-> m.text, date |-> m.date,
     summarized |-> 1]

\* VALUES (?, ?, ?, ?, ?, ?, 0)
NewRow(m) ==
    [id |-> m.id, chat_id |-> m.chat_id, sender |-> m.sender,
     sender_id |-> m.sender_id, text |-> m.text, date |-> m.date,
     summarized |-> 0]

HasKey(rs, i, c) == \E r \in rs : r.id = i /\ r.chat_id = c

\* id INTEGER without PRIMARY KEY: only UNIQUE(id, chat_id) constrains the table.
NoPrimaryKey(rs, m) == FALSE

\* id INTEGER PRIMARY KEY
PrimaryKeyConflict(rs, m) == \E r \in rs : r.id = m.id

\* UNIQUE(id, chat_id)
UniqueConflict(rs, m) == HasKey(rs, m.id, m.chat_id)

Conflict(rs, m) == PrimaryKeyConflict(rs, m) \/ UniqueConflict(rs, m)

\* INSERT OR REPLACE: the conflicting rows are deleted and the new row stored.
InsertOrReplace(rs, m) ==
    {r \in rs : r.id # m.id} \cup {NewRow(m)}

\* INSERT OR IGNORE: on a constraint conflict the statement does nothing.
InsertOrIgnore(rs, m) == IF Conflict(rs, m) THEN rs ELSE rs \cup {NewRow(m)}

\* cursor.rowcount of the INSERT OR IGNORE
RowCount(rs, m) == IF Conflict(rs, m) THEN 0 ELSE 1

\* ------------------------------------------------------------------ queries
\* ORDER BY date ASC (wrong direction).
BeforeAscending(a, b, asc) ==
    \/ a.date < b.date
    \/ /\ a.date = b.date
       /\ \/ IF asc THEN a.id < b.id ELSE a.id > b.id
          \/ a.id = b.id /\ a.chat_id < b.chat_id

\* ORDER BY date DESC; rows of equal date come out in rowid order (id is the
\* rowid), ascending or descending as the engine scans the table.
Before(a, b, asc) ==
    \/ a.date > b.date
    \/ /\ a.date = b.date
       /\ \/ IF asc THEN a.id < b.id ELSE a.id > b.id
          \/ a.id = b.id /\ a.chat_id < b.chat_id

RECURSIVE Sorted(_, _)
Sorted(S, asc) ==
    IF S = {} THEN <<>>
    ELSE LET x == CHOOSE x \in S : \A y \in S \ {x} : Before(x, y, asc)
         IN  <<x>> \o Sorted(S \ {x}, asc)

\* WHERE summarized = 0
Unsummarized(rs) == {r \in rs : r.summarized = 0}

\* SELECT id, chat_id, sender, sender_id, text, date
Selected(r) ==
    [id |-> r.id, chat_id |-> r.chat_id, sender |-> r.sender,
     sender_id |-> r.sender_id, text |-> r.text, date |-> r.date]

Min(a, b) == IF a < b THEN a ELSE b

\* SELECT ... WHERE summarized = 0 ORDER BY date DESC LIMIT ?
FetchRows(rs, limit, asc) ==
    LET all == Sorted(Unsummarized(rs), asc)
        n   == Min(limit, Len(all))
    IN  [k \in 1..n |-> Selected(all[k])]

\* UPDATE messages SET summarized = 1 (no WHERE clause).
MarkEveryRow(rs, ids) == {[r EXCEPT !.summarized = 1] : r \in rs}

\* UPDATE messages SET summarized = (id IN (...)).
MarkOnlyThese(rs, ids) ==
    {[r EXCEPT !.summarized = IF r.id \in ids THEN 1 ELSE 0] : r \in rs}

\* UPDATE messages SET summarized = 1 WHERE id IN (...)
MarkRows(rs, ids) ==
    {IF r.id \in ids THEN [r EXCEPT !.summarized = 1] ELSE r : r \in rs}

\* A statement that names a column fails on a table that lacks it (or on no
\* table); INSERT and SELECT name every column.
TableComplete == AllColumns \subseteq columns

\* ------------------------------------------------------------------ store calls
\* teleton/db.py init_db: CREATE TABLE IF NOT EXISTS, then _ensure_schema.
InitDbEffect ==
    /\ columns' = AddMissingColumns(CreateTableIfNotExists(columns))
    /\ rows' = RowsAfterAlter(CreateTableIfNotExists(columns),
                              RowsAfterCreate(columns, rows))

\* bot/db.py ensure_schema: the same statements through sqlite3.
EnsureSchemaEffect ==
    /\ columns' = AddMissingColumns(CreateTableIfNotExists(columns))
    /\ rows' = RowsAfterAlter(CreateTableIfNotExists(columns),
                              RowsAfterCreate(columns, rows))

\* teleton/db.py save_message: the statement raises (and the except branch
\* logs) on an I/O error or a table that lacks a named column.
SaveRaised(io) == io = "error" \/ ~TableComplete

\* The rows after save_message(m).
SaveRows(m, io) == IF SaveRaised(io) THEN rows ELSE InsertOrIgnore(rows, m)

\* save_message's return value: True when rowcount > 0, False for a duplicate
\* and also from the except branch.
SaveResult(m, io) == ~SaveRaised(io) /\ RowCount(rows, m) > 0

SaveMessageEffect(m, io) ==
    /\ rows' = SaveRows(m, io)
    /\ ret' = [op |-> "save_message", id |-> m.id, chat_id |-> m.chat_id,
               result |-> SaveResult(m, io), error |-> SaveRaised(io)]

\* bot/db.py fetch_unsummarized raises the sqlite3 exception on an I/O error
\* or a table that lacks a named column.
FetchRaised(io) == io = "error" \/ ~TableComplete

\* bot/db.py fetch_unsummarized: cursor.fetchall().
FetchResult(limit, io) ==
    IF FetchRaised(io) THEN <<>> ELSE FetchRows(rows, limit, tieAsc)

\* bot/db.py mark_summarized raises the sqlite3 exception on an I/O error or
\* a table without the column; an empty list returns before connecting.
MarkRaised(ids, io) == ids # {} /\ (io = "error" \/ "summarized" \notin columns)

\* The rows after mark_summarized(ids).
MarkResult(ids, io) ==
    IF MarkRaised(ids, io) \/ ids = {} THEN rows ELSE MarkRows(rows, ids)

\* ------------------------------------------------------------------ ingestion
\* teleton/main.py IGNORED_SENDERS
IGNORED_SENDERS == {"ZeroBot0912", "BotFather"}

\* message.sender_id is None
NoSenderId == 0

\* message.sender is None
NoSender == [kind |-> "none", first_name |-> "", last_name |-> "", title |-> ""]

\* The message the platform holds under id i in chat c.  Chat 100 is a group:
\* Ann writes its odd ids, the bot of the deployment its even ids.  Chat 200 is
\* a channel; its posts carry no sender, no sender id and no text.
RawOf(i, c) ==
    IF c = 200
    THEN [id |-> i, chat_id |-> c, sender |-> NoSender, sender_id |-> NoSenderId,
          message |-> "", date |-> [utc |-> 2, aware |-> TRUE]]
    ELSE IF i % 2 = 0
    THEN [id |-> i, chat_id |-> c,
          sender |-> [kind |-> "User", first_name |-> "ZeroBot0912",
                      last_name |-> "", title |-> ""],
          sender_id |-> 9, message |-> PersonText,
          date |-> [utc |-> 1, aware |-> TRUE]]
    ELSE [id |-> i, chat_id |-> c,
          sender |-> [kind |-> "User", first_name |-> "Ann",
                      last_name |-> "", title |-> ""],
          sender_id |-> 7, message |-> PersonText,
          date |-> [utc |-> 1, aware |-> TRUE]]

RawMessages == {RawOf(i, c) : i \in Ids, c \in Chats}

\* The entity client.get_entity(chat_id) / event.get_chat() resolves a chat to.
ChatEntity(c) ==
    IF c = 200
    THEN [kind |-> "Channel", title |-> "Team Chat", first_name |-> "", last_name |-> ""]
    ELSE [kind |-> "Chat", title |-> "Friends", first_name |-> "", last_name |-> ""]

\* Python's None, for a field the platform sends without a value.
PyNone == "<None>"

\* f"{value}": None is formatted as the text None.
Format(value) == IF value = PyNone THEN "None" ELSE value

\* value or ''
OrEmpty(value) == IF value = PyNone THEN "" ELSE value

\* f"{first_name} {last_name or ''}".strip(), for names that carry no blank
\* at their ends: the blank between the two parts goes when one is empty.
FullName(first_name, last_name) ==
    LET first == Format(first_name)
        last == OrEmpty(last_name)
    IN  IF last = "" THEN first
        ELSE IF first = "" THEN last
        ELSE first \o " " \o last

\* The title of a chat entity: title of a Channel or Chat, full name of a
\* User, str(chat_id) of anything else.
TitleOf(entity, chat_id) ==
    IF entity.kind \in {"Channel", "Chat"} THEN entity.title
    ELSE IF entity.kind = "User" THEN FullName(entity.first_name, entity.last_name)
    ELSE ToString(chat_id)

\* get_chat_title(chat_id): the except branch returns str(chat_id).
GetChatTitle(chat_id, io) ==
    IF io = "error" THEN ToString(chat_id) ELSE TitleOf(ChatEntity(chat_id), chat_id)

\* sender_name of both ingestion paths: full name of a User, title (or
\* str(sender_id)) of another sender, the chat title when there is none.
SenderName(raw, chat_title) ==
    LET sender == raw.sender
        name == IF sender.kind = "none" THEN ""
                ELSE IF sender.kind = "User"
                     THEN FullName(sender.first_name, sender.last_name)
                ELSE IF sender.title # "" THEN sender.title
                ELSE ToString(raw.sender_id)
    IN  IF name = "" THEN chat_title ELSE name

\* The filter is missing: no sender is skipped.
IgnoresNobody(sender_name) == FALSE

\* if sender_name in IGNORED_SENDERS: continue / return
IsIgnored(sender_name) == sender_name \in IGNORED_SENDERS

\* message.date as stored: a naive value is taken as UTC, an aware one is
\* converted; both branches keep the instant.
LocalDate(date) == IF date.aware THEN date.utc ELSE date.utc

\* The arguments both paths hand to save_message.
Normalized(raw, chat_id, chat_title) ==
    [id |-> raw.id, chat_id |-> chat_id,
     sender |-> SenderName(raw, chat_title),
     sender_id |-> IF raw.sender_id # NoSenderId THEN raw.sender_id ELSE chat_id,
     text |-> IF raw.message # "" THEN raw.message ELSE Placeholder,
     date |-> LocalDate(raw.date)]

\* client.iter_messages(chat_id, limit=limit): the newest `limit` messages of
\* the chat, newest first.
History(chat_id) == [k \in 1..MaxId |-> RawOf(MaxId + 1 - k, chat_id)]
Range(chat_id, limit) == SubSeq(History(chat_id), 1, Min(limit, MaxId))

\* What an awaited step of the backfill does: it returns, raises
\* FloodWaitError, or raises another Exception.
Signals == {"ok", "flood", "error"}

\* What a save_message call did: it returned True, returned False, or
\* returned False from its except branch.
SaveOutcome(m, io) ==
    IF SaveRaised(io) THEN "error" ELSE IF SaveResult(m, io) THEN "true" ELSE "false"

\* collect_messages has not been called.  Fields: pc, the arguments, the chat
\* title, the number of items taken from the iterator (pos), collected_count
\* (count), the returned value (result), what the last step raised, and what
\* save_message did for the message in hand (saved).
\* History of the call: the number of rows it inserted (inserted); the ids
\* that were not ignored, not stored under their (id, chat_id) when
\* save_message was called, and met no failure (due); whether a message met a
\* failure (failed).  History of the message in hand: whether its
\* (id, chat_id) was stored when the iterator handed it out (fresh), and what
\* the first save_message of the live handler for the same message did since
\* then (live).
IdleCollector ==
    [pc |-> "idle", chat |-> 0, title |-> "", limit |-> 0, pos |-> 0,
     count |-> 0, result |-> 0, raised |-> "none", saved |-> "none",
     inserted |-> 0, due |-> {}, failed |-> FALSE,
     fresh |-> FALSE, live |-> "none"]

\* main() has not ended.
NotEnded == [cause |-> "none", exit |-> "none"]

\* ------------------------------------------------------------------ the store alone
\* Any interleaving of the store's calls, with any arguments.  Both main()
\* functions run their schema setup before they call anything else of the
\* store, so the other calls meet a complete table.
IdleCycle == [pc |-> "idle", records |-> <<>>, answer |-> "none"]

\* A row an earlier deployment stored: a message of Ann, already summarized
\* where the table has the column.
LegacyRow(cols) ==
    [id |-> 1, chat_id |-> 100, sender |-> "Ann",
     sender_id |-> IF "sender_id" \in cols THEN 7 ELSE Null,
     text |-> PersonText, date |-> 1,
     summarized |-> IF "summarized" \in cols THEN 1 ELSE Null]

InitStore ==
    /\ columns \in LegacyColumns
    /\ rows \in IF columns = {} THEN {{}} ELSE {{}, {LegacyRow(columns)}}
    /\ tieAsc \in BOOLEAN
    /\ ret = [op |-> "none"]
    /\ telPc = "start"
    /\ botPc = "start"
    /\ cyc = [w \in Workers |-> IdleCycle]
    /\ handed = [once |-> {}, again |-> {}]
    /\ col = IdleCollector
    /\ listener = NotEnded

StoreInitDb ==
    /\ InitDbEffect
    /\ ret' = [op |-> "init_db"]
    /\ UNCHANGED <<tieAsc, telPc, botPc, cyc, handed, col, listener>>

StoreEnsureSchema ==
    /\ EnsureSchemaEffect
    /\ ret' = [op |-> "ensure_schema"]
    /\ UNCHANGED <<tieAsc, telPc, botPc, cyc, handed, col, listener>>

StoreSave(m, io) ==
    /\ TableComplete
    /\ SaveMessageEffect(m, io)
    /\ UNCHANGED <<columns, tieAsc, telPc, botPc, cyc, handed, col, listener>>

StoreFetch(limit, io) ==
    /\ TableComplete
    /\ ret' = [op |-> "fetch_unsummarized", limit |-> limit,
               result |-> FetchResult(limit, io), error |-> FetchRaised(io)]
    /\ UNCHANGED <<columns, rows, tieAsc, telPc, botPc, cyc, handed, col, listener>>

StoreMark(ids, io) ==
    /\ TableComplete
    /\ rows' = MarkResult(ids, io)
    /\ ret' = [op |-> "mark_summarized", ids |-> ids, error |-> MarkRaised(ids, io)]
    /\ UNCHANGED <<columns, tieAsc, telPc, botPc, cyc, handed, col, listener>>

NextStore ==
    \/ StoreInitDb
    \/ StoreEnsureSchema
    \/ \E m \in SaveArgs, io \in IoOutcomes : StoreSave(m, io)
    \/ \E limit \in Limits, io \in IoOutcomes : StoreFetch(limit, io)
    \/ \E ids \in SUBSET Ids, io \in IoOutcomes : StoreMark(ids, io)

SpecStore == InitStore /\ [][NextStore]_vars

\* ------------------------------------------------------------------ the two processes
\* The ids of a fetched batch: [row["id"] for row in records].
RecordIds(records) == {records[k].id : k \in 1..Len(records)}

\* The (id, chat_id) of the fetched rows.
RecordKeys(records) == {<<records[k].id, records[k].chat_id>> : k \in 1..Len(records)}

\* The prompt has one line "[date] sender: text" per record; it is blank only
\* for no records, and generate_summary raises ValueError for a blank text.
PromptIsBlank(records) == Len(records) = 0

\* What generate_summary does: ValueError before any request, else the
\* service's answer, GigaChatAuthError or GigaChatAPIError.
SummarizerOutcomes == {"ok", "auth_error", "api_error"}
SummaryOutcome(records, out) == IF PromptIsBlank(records) THEN "value_error" ELSE out

\* What _send_reply does: every chunk is sent, or bot.send_message raises
\* ApiTelegramException.
SendOutcomes == {"ok", "telegram_error"}

Init ==
    /\ columns = {}
    /\ rows = {}
    /\ tieAsc \in BOOLEAN
    /\ ret = [op |-> "none"]
    /\ telPc = "start"
    /\ botPc = "start"
    /\ cyc = [w \in Workers |-> IdleCycle]
    /\ handed = [once |-> {}, again |-> {}]
    /\ col = IdleCollector
    /\ listener = NotEnded

\* teleton main(): await init_db() before anything else.
TelInitDb ==
    /\ telPc = "start"
    /\ InitDbEffect
    /\ telPc' = "running"
    /\ UNCHANGED <<tieAsc, ret, botPc, cyc, handed, col, listener>>

\* bot main(): ensure_schema() before polling.
BotEnsureSchema ==
    /\ botPc = "start"
    /\ EnsureSchemaEffect
    /\ botPc' = "polling"
    /\ UNCHANGED <<tieAsc, ret, telPc, cyc, handed, col, listener>>

\* The messages the platform holds: chat 100 is a group in which Ann writes,
\* chat 200 a channel whose posts carry no sender and no text.
Platform == {m \in SaveArgs : (m.chat_id = 100) <=> (m.sender = "Ann")}

\* handle_new_message: a message that passed the sender filter is handed to
\* save_message; the return value is not used.
LiveMessageStep(m, io) ==
    /\ telPc = "running"
    /\ rows' = SaveRows(m, io)
    /\ UNCHANGED <<columns, tieAsc, telPc, botPc, cyc, handed, col, listener>>

LiveMessage(m, io) == LiveMessageStep(m, io) /\ UNCHANGED ret

\* The handler answers (bot.reply_to) from its early return and from each of
\* its except branches, then returns.
Replying(answer) == [pc |-> "replying", records |-> <<>>, answer |-> answer]

\* The except branch that catches what generate_summary raised.
SummaryAnswer(outcome) ==
    IF outcome = "auth_error" THEN "auth_error"
    ELSE IF outcome = "api_error" THEN "api_error"
    ELSE "error"

\* handle_summary up to generate_summary: fetch_unsummarized(limit); an empty
\* result is answered "nothing new"; an exception goes to the generic except
\* branch.
CycleFetchStep(w, limit, io) ==
    /\ botPc = "polling"
    /\ cyc[w].pc = "idle"
    /\ LET records == FetchResult(limit, io)
       IN  cyc' = [cyc EXCEPT ![w] =
                     IF FetchRaised(io) THEN Replying("error")
                     ELSE IF Len(records) = 0 THEN Replying("nothing_new")
                     ELSE [pc |-> "fetched", records |-> records, answer |-> "none"]]
    /\ UNCHANGED <<columns, rows, tieAsc, telPc, botPc, handed, col, listener>>

CycleFetch(w, limit, io) == CycleFetchStep(w, limit, io) /\ UNCHANGED ret

\* summary = generate_summary(prompt); what it raises goes to the except branch
\* of its class.
CycleSummarizeStep(w, out) ==
    /\ cyc[w].pc = "fetched"
    /\ LET outcome == SummaryOutcome(cyc[w].records, out)
       IN  cyc' = [cyc EXCEPT ![w] =
                     IF outcome = "ok" THEN [@ EXCEPT !.pc = "summarized"]
                     ELSE Replying(SummaryAnswer(outcome))]
    /\ UNCHANGED <<columns, rows, tieAsc, telPc, botPc, handed, col, listener>>

CycleSummarize(w, out) == CycleSummarizeStep(w, out) /\ UNCHANGED ret

\* _send_reply(message.chat.id, summary, ...); ApiTelegramException goes to its
\* except branch.
CycleSend(w, out) ==
    /\ cyc[w].pc = "summarized"
    /\ cyc' = [cyc EXCEPT ![w] =
                 IF out = "ok" THEN [@ EXCEPT !.pc = "delivered"]
                 ELSE Replying("telegram_error")]
    /\ handed' = IF out = "ok"
                  THEN [once  |-> handed.once \cup RecordIds(cyc[w].records),
                        again |-> handed.again \cup
                                    (handed.once \cap RecordIds(cyc[w].records))]
                  ELSE handed
    /\ UNCHANGED <<columns, rows, tieAsc, ret, telPc, botPc, col, listener>>

\* mark_summarized([row["id"] for row in records]), then the handler returns;
\* an exception goes to the generic except branch.
CycleMark(w, io) ==
    /\ cyc[w].pc = "delivered"
    /\ rows' = MarkResult(RecordIds(cyc[w].records), io)
    /\ cyc' = [cyc EXCEPT ![w] =
                 IF MarkRaised(RecordIds(cyc[w].records), io)
                 THEN Replying("error") ELSE IdleCycle]
    /\ UNCHANGED <<columns, tieAsc, ret, telPc, botPc, handed, col, listener>>

\* bot.reply_to(message, ...) of the early return or of an except branch; the
\* handler returns.
CycleReply(w) ==
    /\ cyc[w].pc = "replying"
    /\ cyc' = [cyc EXCEPT ![w] = IdleCycle]
    /\ UNCHANGED <<columns, rows, tieAsc, ret, telPc, botPc, handed, col, listener>>

Next ==
    \/ TelInitDb
    \/ BotEnsureSchema
    \/ \E m \in Platform, io \in IoOutcomes : LiveMessage(m, io)
    \/ \E w \in Workers, limit \in Limits, io \in IoOutcomes : CycleFetch(w, limit, io)
    \/ \E w \in Workers, out \in SummarizerOutcomes : CycleSummarize(w, out)
    \/ \E w \in Workers, out \in SendOutcomes : CycleSend(w, out)
    \/ \E w \in Workers, io \in IoOutcomes : CycleMark(w, io)
    \/ \E w \in Workers : CycleReply(w)

Spec == Init /\ [][Next]_vars

\* ------------------------------------------------------------------ the ingestion process
\* await asyncio.sleep(...) suspends collect_messages and hands the event loop
\* to the other tasks of the client; time.sleep(...) would keep it.
SleepKeepsLoop == col.pc \in {"delay", "backoff"}
CollectorKeepsLoop == FALSE

\* main(): dialogs[0][0] is handed to collect_messages; get_chat_title is its
\* first await.
CollectStart(chat_id, limit, io) ==
    /\ telPc = "running"
    /\ col.pc = "idle"
    /\ col' = [IdleCollector EXCEPT !.pc = "next", !.chat = chat_id,
                                    !.title = GetChatTitle(chat_id, io),
                                    !.limit = limit]
    /\ UNCHANGED <<columns, rows, tieAsc, ret, telPc, botPc, cyc, handed, listener>>

\* async for message in client.iter_messages(...): the next message, the end
\* of the range (return collected_count), or an exception of the iterator,
\* which only the outer except branch catches (return 0).
CollectNext(sig) ==
    /\ col.pc = "next"
    /\ LET range == Range(col.chat, col.limit)
       IN  col' =
             IF sig # "ok"
             THEN [col EXCEPT !.pc = "returned", !.result = 0, !.raised = sig]
             ELSE IF col.pos < Len(range)
             THEN [col EXCEPT !.pc = "body", !.pos = @ + 1, !.raised = "none",
                     !.fresh = ~HasKey(rows, range[col.pos + 1].id, col.chat)]
             ELSE [col EXCEPT !.pc = "returned", !.result = col.count,
                              !.raised = "none"]
    /\ UNCHANGED <<columns, rows, tieAsc, ret, telPc, botPc, cyc, handed, listener>>

\* The arguments collect_messages hands to save_message for a message of its
\* range, with the title that get_chat_title returned before the loop.
CollectRecord(raw) == Normalized(raw, col.chat, col.title)

\* The loop body for the message in hand: the inner except branches (sleep
\* for FloodWaitError, continue for another Exception), the sender filter,
\* then save_message and the count.
CollectBody(sig, io) ==
    /\ col.pc = "body"
    /\ LET raw == Range(col.chat, col.limit)[col.pos]
           m == CollectRecord(raw)
       IN  IF sig = "flood"
           THEN /\ rows' = rows
                /\ col' = [col EXCEPT !.pc = "backoff", !.raised = "flood",
                             !.failed = TRUE, !.fresh = FALSE, !.live = "none"]
           ELSE IF sig = "error"
           THEN /\ rows' = rows
                /\ col' = [col EXCEPT !.pc = "next", !.raised = "error",
                             !.failed = TRUE, !.fresh = FALSE, !.live = "none"]
           ELSE IF IsIgnored(SenderName(raw, col.title))
           THEN /\ rows' = rows
                /\ col' = [col EXCEPT !.pc = "next", !.raised = "none",
                             !.fresh = FALSE, !.live = "none"]
           ELSE /\ rows' = SaveRows(m, io)
                /\ col' = [col EXCEPT
                             !.pc = "delay", !.raised = "none",
                             !.saved = SaveOutcome(m, io),
                             !.count = IF SaveResult(m, io) THEN @ + 1 ELSE @,
                             !.inserted = @ + Cardinality(SaveRows(m, io) \ rows),
                             !.due = IF ~HasKey(rows, m.id, m.chat_id) /\ ~SaveRaised(io)
                                     THEN @ \cup {m.id} ELSE @,
                             !.failed = @ \/ SaveRaised(io)]
    /\ UNCHANGED <<columns, tieAsc, ret, telPc, botPc, cyc, handed, listener>>

\* The sleep of the loop body (0.1 s) or of the FloodWaitError branch
\* (e.seconds) is over: the loop goes on with the next message.
CollectResume ==
    /\ col.pc \in {"delay", "backoff"}
    /\ col' = [col EXCEPT !.pc = "next", !.raised = "none", !.saved = "none",
                          !.fresh = FALSE, !.live = "none"]
    /\ UNCHANGED <<columns, rows, tieAsc, ret, telPc, botPc, cyc, handed, listener>>

\* The collector holds the message with this id and chat.
InHand(raw) ==
    /\ col.pc \in {"body", "delay"}
    /\ raw.chat_id = col.chat
    /\ raw.id = Range(col.chat, col.limit)[col.pos].id

\* The chat title of handle_new_message, from the entity of event.get_chat().
LiveTitle(raw) == TitleOf(ChatEntity(raw.chat_id), raw.chat_id)

\* The arguments handle_new_message hands to save_message.
LiveRecord(raw) == Normalized(raw, raw.chat_id, LiveTitle(raw))

\* handle_new_message for a NewMessage event: runs whenever the client is
\* connected and the event loop is free; an ignored sender returns before
\* save_message, whose return value is not used.
LiveEvent(raw, io) ==
    /\ telPc = "running"
    /\ ~CollectorKeepsLoop
    /\ LET chat_title == LiveTitle(raw)
           m == LiveRecord(raw)
       IN  IF IsIgnored(SenderName(raw, chat_title))
           THEN UNCHANGED <<rows, col>>
           ELSE /\ rows' = SaveRows(m, io)
                /\ col' = IF InHand(raw) /\ col.live = "none"
                          THEN [col EXCEPT !.live = SaveOutcome(m, io)]
                          ELSE col
    /\ UNCHANGED <<columns, tieAsc, ret, telPc, botPc, cyc, handed, listener>>

\* What ends client.run_until_disconnected().
ListenerCauses == {"connection_lost", "disconnect", "interrupt"}

\* client.run_until_disconnected(): returns after disconnect(), raises the
\* connection error when the connection is lost, KeyboardInterrupt on Ctrl+C.
RunUntilDisconnected(cause) ==
    IF cause = "connection_lost" THEN "ConnectionError"
    ELSE IF cause = "interrupt" THEN "KeyboardInterrupt"
    ELSE "return"

\* main() with a single except branch that reports every end as a stop.
MainReportsStop(raised) == "stopped_by_user"

\* main(): except KeyboardInterrupt logs the stop by the user, except
\* Exception logs a critical error, a return logs neither.
MainReports(raised) ==
    IF raised = "KeyboardInterrupt" THEN "stopped_by_user"
    ELSE IF raised = "return" THEN "finished"
    ELSE "critical_error"

\* main(): await start_live_listener() after collect_messages returned; when
\* it ends main() reports, disconnects in its finally branch and returns.
ListenerEnds(cause) ==
    /\ telPc = "running"
    /\ col.pc = "returned"
    /\ telPc' = "stopped"
    /\ listener' = [cause |-> cause,
                    exit |-> MainReports(RunUntilDisconnected(cause))]
    /\ UNCHANGED <<columns, rows, tieAsc, ret, botPc, cyc, handed, col>>

\* main(): get_dialogs returned no dialog; main() returns without a backfill
\* and without the listener.
MainNoDialogs ==
    /\ telPc = "running"
    /\ col.pc = "idle"
    /\ telPc' = "stopped"
    /\ listener' = [cause |-> "no_dialogs", exit |-> MainReports("return")]
    /\ UNCHANGED <<columns, rows, tieAsc, ret, botPc, cyc, handed, col>>

\* The process is started again: asyncio.run(main()).
TelRestart ==
    /\ telPc = "stopped"
    /\ telPc' = "start"
    /\ col' = IdleCollector
    /\ listener' = NotEnded
    /\ UNCHANGED <<columns, rows, tieAsc, ret, botPc, cyc, handed>>

\* The Telethon process: schema setup, one backfill, the live handler, the
\* end of the listener and a new start of the process.
NextIngest ==
    \/ TelInitDb
    \/ \E c \in Chats, limit \in Limits, io \in IoOutcomes : CollectStart(c, limit, io)
    \/ \E sig \in Signals : CollectNext(sig)
    \/ \E sig \in Signals, io \in IoOutcomes : CollectBody(sig, io)
    \/ CollectResume
    \/ \E raw \in RawMessages, io \in IoOutcomes : LiveEvent(raw, io)
    \/ MainNoDialogs
    \/ \E cause \in ListenerCauses : ListenerEnds(cause)
    \/ TelRestart

SpecIngest == Init /\ [][NextIngest]_vars

\* The Telethon process during a backfill that meets rate limits but no
\* other failure, next to the bot process with one handler thread.
NextSuspended ==
    \/ TelInitDb
    \/ BotEnsureSchema
    \/ \E c \in Chats, limit \in Limits : CollectStart(c, limit, "ok")
    \/ CollectNext("ok")
    \/ \E sig \in {"ok", "flood"} : CollectBody(sig, "ok")
    \/ CollectResume
    \/ \E raw \in RawMessages : LiveEvent(raw, "ok")
    \/ \E limit \in Limits : CycleFetch("w1", limit, "ok")
    \/ CycleSummarize("w1", "ok")
    \/ CycleSend("w1", "ok")
    \/ CycleMark("w1", "ok")
    \/ CycleReply("w1")

SpecSuspended == Init /\ [][NextSuspended]_vars

\* ------------------------------------------------------------------ a failed cycle and the next one
\* Both processes as in Spec, the store calls succeeding; ret follows one
\* cycle from its fetch: the limit and the rows it fetched, whether
\* generate_summary raised, and what the next cycle fetched after that.
NoCycle == [op |-> "none"]

Follows(stages) == ret.op = "cycle" /\ ret.stage \in stages

\* save_message of the live handler; a row inserted after the fetch of the
\* cycle that is followed ends the following.
RetryInsert(m) ==
    /\ LiveMessageStep(m, "ok")
    /\ ret' = IF Follows({"fetched", "failed"}) /\ rows' # rows THEN NoCycle ELSE ret

\* fetch_unsummarized(limit) of a /summary command: the first cycle after a
\* failed one is compared with it when it has the same limit; otherwise the
\* cycle is followed when no other is.
RetryFetch(w, limit) ==
    /\ CycleFetchStep(w, limit, "ok")
    /\ ret' = IF Follows({"failed"})
              THEN IF limit = ret.limit
                   THEN [ret EXCEPT !.stage = "retried",
                                    !.again = FetchResult(limit, "ok")]
                   ELSE NoCycle
              ELSE IF Follows({"fetched"}) \/ cyc'[w].pc # "fetched" THEN ret
              ELSE [op |-> "cycle", stage |-> "fetched", worker |-> w,
                    limit |-> limit, records |-> cyc'[w].records, again |-> <<>>]

\* generate_summary of a cycle: what it raises makes the followed cycle a
\* failed one.
RetrySummarize(w, out) ==
    /\ CycleSummarizeStep(w, out)
    /\ ret' = IF Follows({"fetched"}) /\ ret.worker = w
              THEN IF cyc'[w].pc = "replying" THEN [ret EXCEPT !.stage = "failed"]
                   ELSE NoCycle
              ELSE ret

NextRetry ==
    \/ TelInitDb
    \/ BotEnsureSchema
    \/ \E m \in Platform : RetryInsert(m)
    \/ \E w \in Workers, limit \in Limits : RetryFetch(w, limit)
    \/ \E w \in Workers, out \in SummarizerOutcomes : RetrySummarize(w, out)
    \/ \E w \in Workers : CycleSend(w, "ok")
    \/ \E w \in Workers : CycleMark(w, "ok")
    \/ \E w \in Workers : CycleReply(w)

SpecRetry == Init /\ [][NextRetry]_vars

\* ------------------------------------------------------------------ the limit and the progress of the cycles
\* The literals of the limit of a /summary command.
DefaultLimit == 50
LowestLimit == 1
HighestLimit == 200

\* parts[1] of the command text: missing, a text that int() rejects with
\* ValueError, or the text of an integer.
Arguments ==
    {[kind |-> "missing", value |-> 0], [kind |-> "text", value |-> 0]}
        \cup {[kind |-> "int", value |-> n] :
                n \in {-1, 0, HighestLimit, HighestLimit + 1} \cup Limits}

Max(a, b) == IF a > b THEN a ELSE b

\* The limit is taken as it was sent.
Unclamped(arg) == IF arg.kind = "int" THEN arg.value ELSE DefaultLimit

\* limit = int(parts[1]) if len(parts) > 1 else 50;
\* limit = max(1, min(limit, 200)); except ValueError: limit = 50
EffectiveLimit(arg) ==
    IF arg.kind = "text" THEN DefaultLimit
    ELSE Max(LowestLimit,
             Min(IF arg.kind = "missing" THEN DefaultLimit ELSE arg.value,
                 HighestLimit))

\* handle_summary from the command text to fetch_unsummarized(limit); ret
\* keeps the argument and the limit of the latest command.
SummaryCommand(w, arg) ==
    /\ CycleFetchStep(w, EffectiveLimit(arg), "ok")
    /\ ret' = [op |-> "summary", arg |-> arg, limit |-> EffectiveLimit(arg)]

\* The Telethon process is interrupted while it runs: main() reports,
\* disconnects in its finally branch and returns; no message is stored after.
TelInterrupted ==
    /\ telPc = "running"
    /\ telPc' = "stopped"
    /\ listener' = [cause |-> "interrupt", exit |-> MainReports("KeyboardInterrupt")]
    /\ UNCHANGED <<columns, rows, tieAsc, ret, botPc, cyc, handed, col>>

\* Ingestion until it stops, and the cycles of one handler thread, none of
\* whose steps fails.
NextProgress ==
    \/ TelInitDb
    \/ BotEnsureSchema
    \/ \E m \in Platform : LiveMessage(m, "ok")
    \/ TelInterrupted
    \/ \E arg \in Arguments : SummaryCommand("w1", arg)
    \/ CycleSummarize("w1", "ok")
    \/ CycleSend("w1", "ok")
    \/ CycleMark("w1", "ok")
    \/ CycleReply("w1")

\* The bot is started, /summary commands keep coming and the handler goes on
\* with the step it is at.
CyclesKeepRunning ==
    /\ WF_vars(BotEnsureSchema)
    /\ WF_vars(\E arg \in Arguments : SummaryCommand("w1", arg))
    /\ WF_vars(CycleSummarize("w1", "ok"))
    /\ WF_vars(CycleSend("w1", "ok"))
    /\ WF_vars(CycleMark("w1", "ok"))
    /\ WF_vars(CycleReply("w1"))

SpecProgress == Init /\ [][NextProgress]_vars /\ CyclesKeepRunning

\* ------------------------------------------------------------------ the sender name
\* The senders a message can carry: a person with both names, with a first
\* name only (last name None or empty), a deleted account (no name at all),
\* a group or channel with its title, or no sender object.
Person(first_name, last_name) ==
    [kind |-> "User", first_name |-> first_name, last_name |-> last_name, title |-> ""]
Senders ==
    { Person("Ann", "Lee"), Person("Ann", PyNone), Person("Ann", ""),
      Person("Bob", "Lee"), Person(PyNone, PyNone),
      [kind |-> "Channel", first_name |-> "", last_name |-> "", title |-> "News"],
      [kind |-> "Chat", first_name |-> "", last_name |-> "", title |-> "Friends"],
      NoSender }

\* The chats a message can come from: a channel, a group, a private chat with
\* a person, and an entity of another type.
ChatEntities ==
    { ChatEntity(100), ChatEntity(200),
      [kind |-> "User", title |-> "", first_name |-> "Ann", last_name |-> PyNone],
      [kind |-> "Other", title |-> "", first_name |-> "", last_name |-> ""] }

\* A message of the given sender, as far as the sender name needs it.
MessageOf(sender, chat_id) ==
    [RawOf(1, chat_id) EXCEPT !.sender = sender,
                              !.sender_id = IF sender.kind = "none" THEN NoSenderId ELSE 7]

\* collect_messages resolves the sender name of a message with the title
\* that get_chat_title returned.
ResolveInBackfill(sender, entity, chat_id, io) ==
    /\ LET chat_title == IF io = "error" THEN ToString(chat_id)
                         ELSE TitleOf(entity, chat_id)
       IN  ret' = [op |-> "sender_name", path |-> "backfill", sender |-> sender,
                   chat_title |-> chat_title,
                   name |-> SenderName(MessageOf(sender, chat_id), chat_title)]
    /\ UNCHANGED <<columns, rows, tieAsc, telPc, botPc, cyc, handed, col, listener>>

\* handle_new_message resolves the sender name of a message with the title
\* of event.get_chat().
ResolveInLiveHandler(sender, entity, chat_id) ==
    /\ LET chat_title == TitleOf(entity, chat_id)
       IN  ret' = [op |-> "sender_name", path |-> "live", sender |-> sender,
                   chat_title |-> chat_title,
                   name |-> SenderName(MessageOf(sender, chat_id), chat_title)]
    /\ UNCHANGED <<columns, rows, tieAsc, telPc, botPc, cyc, handed, col, listener>>

NextResolve ==
    \/ \E sender \in Senders, entity \in ChatEntities, c \in Chats, io \in IoOutcomes :
         ResolveInBackfill(sender, entity, c, io)
    \/ \E sender \in Senders, entity \in ChatEntities, c \in Chats :
         ResolveInLiveHandler(sender, entity, c)

SpecResolve == Init /\ [][NextResolve]_vars

\* ------------------------------------------------------------------ the summarizer call
\* What can go wrong in generate_summary, in the order of the code:
\* get_access_token finds no CLIENT_ID / CLIENT_SECRET, its request fails on
\* the network, the token endpoint rejects the credentials (status other than
\* 200) or answers without access_token; the chat/completions request fails
\* on the network, answers with a status other than 200 or without
\* choices[0].message.content.
TokenCauses ==
    {"missing_credentials", "token_network", "bad_credentials", "token_malformed"}
ChatCauses == {"api_network", "api_status", "api_malformed"}
SummarizerCauses == {"ok"} \cup TokenCauses \cup ChatCauses

\* get_access_token raises GigaChatAuthError from every branch, the network
\* branch included; _call_chat_api passes it on and raises GigaChatAPIError
\* from each of its own branches, the network branch included.
GigaChatOutcome(cause) ==
    IF cause = "ok" THEN "ok"
    ELSE IF cause \in TokenCauses THEN "auth_error"
    ELSE "api_error"

\* handle_summary: summary = generate_summary(prompt), with the cause of a
\* failure kept in ret next to the answer of the except branch.
SummaryCall(w, cause) ==
    /\ cyc[w].pc = "fetched"
    /\ LET outcome == SummaryOutcome(cyc[w].records, GigaChatOutcome(cause))
       IN  /\ cyc' = [cyc EXCEPT ![w] =
                        IF outcome = "ok" THEN [@ EXCEPT !.pc = "summarized"]
                        ELSE Replying(SummaryAnswer(outcome))]
           /\ ret' = [op |-> "generate_summary", cause |-> cause,
                      answer |-> IF outcome = "ok" THEN "none"
                                 ELSE SummaryAnswer(outcome)]
    /\ UNCHANGED <<columns, rows, tieAsc, telPc, botPc, handed, col, listener>>

\* The bot process with one handler thread, the cause of each summarizer
\* failure recorded, next to the live handler.
NextSummarizer ==
    \/ TelInitDb
    \/ BotEnsureSchema
    \/ \E m \in Platform, io \in IoOutcomes : LiveMessage(m, io)
    \/ \E limit \in Limits, io \in IoOutcomes : CycleFetch("w1", limit, io)
    \/ \E cause \in SummarizerCauses : SummaryCall("w1", cause)
    \/ \E out \in SendOutcomes : CycleSend("w1", out)
    \/ \E io \in IoOutcomes : CycleMark("w1", io)
    \/ CycleReply("w1")

SpecSummarizer == Init /\ [][NextSummarizer]_vars

\* ------------------------------------------------------------------ claims on the store
\* The row of the store that a fetched record came from.
RowOf(rs, rec) == {r \in rs : Selected(r) = rec}

\* C1: a save_message whose (id, chat_id) is already stored returns False and
\* leaves the table exactly as it was: same rows, same sender, sender_id, text,
\* date and summarized of the stored row.
C1_DuplicateSaveChangesNothing ==
    [][ (ret'.op = "save_message" /\ HasKey(rows, ret'.id, ret'.chat_id))
          => (ret'.result = FALSE /\ rows' = rows) ]_vars

\* C1 witness: a duplicate was offered for a row already summarized, without
\* any storage error, and the row is still summarized.
C1_Witness ==
    /\ ret.op = "save_message"
    /\ ~ret.error
    /\ ret.result = FALSE
    /\ \E r \in rows : r.id = ret.id /\ r.chat_id = ret.chat_id /\ r.summarized = 1

\* C2: a message whose id is stored for another chat, and whose own
\* (id, chat_id) is not stored, is inserted by save_message: the call returns
\* True and the store gains the row, one row per (id, chat_id).
C2_SameIdInOtherChatIsStored ==
    [][ ( /\ ret'.op = "save_message"
          /\ ~ret'.error
          /\ ~HasKey(rows, ret'.id, ret'.chat_id)
          /\ \E r \in rows : r.id = ret'.id /\ r.chat_id # ret'.chat_id )
          => ( /\ ret'.result = TRUE
               /\ HasKey(rows', ret'.id, ret'.chat_id)
               /\ Cardinality(rows') = Cardinality(rows) + 1 ) ]_vars

\* C3: save_message returns True exactly when it created a row, and whenever
\* it returned False a row with the message's (id, chat_id) is in the store.
C3_FalseMeansDuplicate ==
    ret.op = "save_message" =>
        /\ ret.result = TRUE => HasKey(rows, ret.id, ret.chat_id)
        /\ ret.result = FALSE => HasKey(rows, ret.id, ret.chat_id)

\* C4: fetch_unsummarized(n) returns min(n, number of unsummarized rows) rows,
\* each one a distinct stored row with summarized = 0, in descending date
\* order, and no unsummarized row that was left out is newer than a returned one.
C4_FetchNewestUnsummarized ==
    (ret.op = "fetch_unsummarized" /\ ~ret.error) =>
        LET res == ret.result
            idx == 1..Len(res)
        IN  /\ Len(res) <= ret.limit
            /\ Len(res) = Min(ret.limit, Cardinality(Unsummarized(rows)))
            /\ \A k \in idx : \E r \in RowOf(rows, res[k]) : r.summarized = 0
            /\ \A j, k \in idx : j < k => res[j].date >= res[k].date
            /\ \A j, k \in idx : j # k => res[j] # res[k]
            /\ \A r \in Unsummarized(rows) :
                   (\A k \in idx : res[k] # Selected(r))
                       => \A k \in idx : r.date <= res[k].date

\* C4 witness: a fetch with limit 1 returned the newer of two unsummarized rows
\* and left the strictly older one out.
C4_Witness ==
    /\ ret.op = "fetch_unsummarized"
    /\ ~ret.error
    /\ ret.limit = 1
    /\ Len(ret.result) = 1
    /\ \E r \in Unsummarized(rows) : r.date < ret.result[1].date

\* C5: a mark_summarized(ids) that returns sets summarized = 1 on the rows
\* whose id is in ids and changes nothing else: every other row, every other
\* column and the number of rows stay; with no ids the table is unchanged.
C5_MarkExactlyTheIds ==
    [][ (ret'.op = "mark_summarized" /\ ~ret'.error) =>
          /\ \A r \in rows :
                IF r.id \in ret'.ids
                THEN [r EXCEPT !.summarized = 1] \in rows'
                ELSE r \in rows'
          /\ Cardinality(rows') = Cardinality(rows)
          /\ ret'.ids = {} => rows' = rows ]_vars

\* C5 witness: after a mark, a row named in ids is summarized and a row not
\* named is still unsummarized.
C5_Witness ==
    /\ ret.op = "mark_summarized"
    /\ ~ret.error
    /\ \E r \in rows : r.id \in ret.ids /\ r.summarized = 1
    /\ \E r \in rows : r.id \notin ret.ids /\ r.summarized = 0

\* C10: no step of init_db, ensure_schema, save_message, fetch_unsummarized or
\* mark_summarized deletes a row, changes a stored value, or takes summarized
\* from 1 back to 0.
C10_RowsAndFlagsOnlyGrow ==
    [][ \A r \in rows :
          \E q \in rows' : Selected(q) = Selected(r) /\ q.summarized >= r.summarized ]_vars

\* C10 witness: schema setup ran again on a store that holds a summarized row
\* and an unsummarized one.
C10_Witness ==
    /\ ret.op \in {"init_db", "ensure_schema"}
    /\ \E r \in rows : r.summarized = 1
    /\ \E r \in rows : r.summarized = 0

\* ------------------------------------------------------------------ claims on the cycle
\* The table with exactly the rows of the given (id, chat_id) keys summarized.
BatchMarked(rs, keys) ==
    {IF <<r.id, r.chat_id>> \in keys THEN [r EXCEPT !.summarized = 1] ELSE r : r \in rs}

InFlight(w) == cyc[w].pc \in {"fetched", "summarized", "delivered"}

C7_NoOverlappingBatches ==
    \A w1, w2 \in Workers :
        (w1 # w2 /\ InFlight(w1) /\ InFlight(w2))
            => RecordKeys(cyc[w1].records) \cap RecordKeys(cyc[w2].records) = {}

\* C8: no stored message is part of two batches whose summary was delivered.
C8_HandedOffAtMostOnce == handed.again = {}

\* C9: a row is summarized only if it was in the batch of a cycle whose
\* summarizer call succeeded and whose summary was delivered before the mark;
\* in particular no row is summarized by being inserted.
C9_SummarizedOnlyAfterDelivery ==
    \A r \in rows : r.summarized = 1 => r.id \in handed.once

\* C9 witness: a summarized row next to a delivered batch that is not marked yet.
C9_Witness ==
    /\ \E r \in rows : r.summarized = 1
    /\ \E w \in Workers :
          /\ cyc[w].pc = "delivered"
          /\ \E r \in rows : r.id \in RecordIds(cyc[w].records) /\ r.summarized = 0

\* ------------------------------------------------------------------ claims on the backfill
\* collect_messages has returned from its loop (not from the outer except
\* branch).
ReturnedFromLoop == col.pc = "returned" /\ col.raised = "none"

\* C11: whenever collect_messages has returned, on every outcome of the run,
\* the value it returned is the number of rows this call inserted.
C11_ReturnsInsertedCount ==
    col.pc = "returned" => col.result = col.inserted

\* C12: a backfill that met no failure returns the number of distinct
\* non-ignored messages of its range that were not stored under their
\* (id, chat_id); a further backfill of a range whose messages have all been
\* stored returns 0.
C12_CountsEveryNewMessage ==
    (ReturnedFromLoop /\ ~col.failed) => col.result = Cardinality(col.due)

\* C13: no row of the store has an ignored sender name, whichever path
\* offered the message and however often, and the backfill never counts more
\* than the non-ignored messages it has taken.
C13_IgnoredSenderNeverStored ==
    /\ \A r \in rows : r.sender \notin IGNORED_SENDERS
    /\ col.pc # "idle" =>
         col.count <= Cardinality({k \in 1..col.pos :
             SenderName(Range(col.chat, col.limit)[k], col.title)
                 \notin IGNORED_SENDERS})

\* C13 witness: the backfill of the group took the bot's message and Ann's,
\* returned 1, and the store holds Ann's row only.
C13_Witness ==
    /\ ReturnedFromLoop
    /\ col.chat = 100 /\ col.pos = 2 /\ col.result = 1
    /\ rows = {NewRow(Normalized(RawOf(1, 100), 100, "Friends"))}

\* C14: when a backfill in which a message met a processing failure has
\* returned from its loop, every message of the range that was not ignored,
\* not a duplicate and met no failure is stored and counted.
C14_FailureDoesNotAbortBatch ==
    (ReturnedFromLoop /\ col.failed) =>
        /\ col.pos = Len(Range(col.chat, col.limit))
        /\ \A i \in col.due : HasKey(rows, i, col.chat)
        /\ col.result = Cardinality(col.due)

\* C15: a step of the backfill in which FloodWaitError is raised leaves the
\* backfill suspended at the same position, and the end of the suspension
\* continues with the next message.
C15_RateLimitSuspendsAndResumes ==
    [][ /\ (col' # col /\ col'.raised = "flood") =>
             (col'.pc = "backoff" /\ col'.pos = col.pos /\ col'.count = col.count)
        /\ (col.pc = "backoff" /\ col' # col) =>
             (col'.pc = "next" /\ col'.pos = col.pos /\ col'.count = col.count)
      ]_vars

\* collect_messages is in one of its two sleeps.
Suspended == col.pc \in {"delay", "backoff"}

C18_ConcurrentInsertStoresOnce ==
    (/\ col.pc = "delay"
     /\ col.fresh
     /\ col.saved \in {"true", "false"}
     /\ col.live \in {"true", "false"})
    => /\ Cardinality({r \in rows :
            /\ r.id = Range(col.chat, col.limit)[col.pos].id
            /\ r.chat_id = col.chat}) = 1
       /\ (col.saved = "true") # (col.live = "true")

\* ------------------------------------------------------------------ claims on the summarizer call
\* The three causes of a failed summary: the credentials (missing or
\* rejected), the API (status other than 200 or malformed answer of
\* chat/completions), the network.  An answer of the token endpoint without
\* a token is left unclassified.
FailureClass(cause) ==
    IF cause \in {"missing_credentials", "bad_credentials"} THEN "authentication"
    ELSE IF cause \in {"api_status", "api_malformed"} THEN "api"
    ELSE IF cause \in {"token_network", "api_network"} THEN "network"
    ELSE "unclassified"

\* C19: after a failed generate_summary the answer to the caller is the
\* authentication answer exactly for an authentication failure and the API
\* answer exactly for an API failure; a network failure, also one while the
\* token is obtained, gets neither of the two.
C19_ReportDistinguishesCauses ==
    (ret.op = "generate_summary" /\ ret.cause # "ok"
        /\ FailureClass(ret.cause) # "unclassified")
    => /\ (ret.answer = "auth_error") <=> (FailureClass(ret.cause) = "authentication")
       /\ (ret.answer = "api_error") <=> (FailureClass(ret.cause) = "api")

\* ------------------------------------------------------------------ claims on the schema setup
\* C20: a run of init_db or ensure_schema, from no table, from a table that
\* lacks summarized and/or sender_id, or from a complete table, ends with all
\* seven columns, keeps every row with its value in every column the table
\* had, adds and removes no row, and changes nothing on a complete table.
C20_SchemaSetupKeepsRows ==
    [][ (ret'.op \in {"init_db", "ensure_schema"}) =>
          /\ columns' = AllColumns
          /\ \A r \in rows : \E q \in rows' : \A c \in columns : q[c] = r[c]
          /\ Cardinality(rows') = Cardinality(rows)
          /\ TableComplete => (rows' = rows /\ columns' = columns)
      ]_vars

\* C20 witness: the setup has run on a table that lacked sender_id and
\* summarized and held a row; the row is there with its values, NULL as
\* sender_id and 0 as summarized.
C20_Witness ==
    /\ ret.op \in {"init_db", "ensure_schema"}
    /\ columns = AllColumns
    /\ rows = {[LegacyRow({}) EXCEPT !.summarized = 0]}

\* ------------------------------------------------------------------ claims on the sender name
\* The name parts of a person that are present, joined by one blank.
PresentNames(sender) ==
    LET first == OrEmpty(sender.first_name)
        last == OrEmpty(sender.last_name)
    IN  IF last = "" THEN first
        ELSE IF first = "" THEN last
        ELSE first \o " " \o last

\* C21: the resolved sender name of every message is: for a person the first
\* name plus the last name, trimmed; for a group or channel its title; for a
\* message without sender object, and for a sender that has no name, the
\* display name of the chat; it is never null or empty.
C21_SenderNameResolution ==
    ret.op = "sender_name" =>
        /\ ret.sender.kind = "User" =>
             ret.name = IF PresentNames(ret.sender) = "" THEN ret.chat_title
                        ELSE PresentNames(ret.sender)
        /\ ret.sender.kind \in {"Channel", "Chat"} => ret.name = ret.sender.title
        /\ ret.sender.kind = "none" => ret.name = ret.chat_title
        /\ ret.name \notin {"", PyNone}

\* ------------------------------------------------------------------ claims on the two ingestion paths
\* C22: for the message the backfill has in hand, the live handler and
\* collect_messages drop it alike, and when they keep it the record the live
\* handler hands to save_message (id, chat_id, sender, sender_id, text, date)
\* equals the record collect_messages hands to it.
C22_SameNormalization ==
    col.pc = "body" =>
        LET raw == Range(col.chat, col.limit)[col.pos]
        IN  /\ IsIgnored(SenderName(raw, col.title))
                 = IsIgnored(SenderName(raw, LiveTitle(raw)))
            /\ ~IsIgnored(SenderName(raw, col.title))
                 => CollectRecord(raw) = LiveRecord(raw)

\* ------------------------------------------------------------------ claims on the retry
\* C23: after a cycle whose summarizer call failed, the next cycle with the
\* same limit, no row having been inserted since the failed cycle fetched,
\* fetches the same rows in the same order as the failed cycle.
C23_FailedBatchIsRetried ==
    Follows({"retried"}) => ret.again = ret.records

\* ------------------------------------------------------------------ claims on the progress
LimitInRange ==
    ret.op = "summary" =>
        /\ ret.limit \in LowestLimit..HighestLimit
        /\ ret.arg.kind \in {"missing", "text"} => ret.limit = DefaultLimit

\* The step that ends a successful cycle: its batch is not empty and its rows
\* are summarized in the table it leaves.
SuccessfulCycleMarks ==
    \A w \in Workers :
        (cyc[w].pc = "delivered" /\ cyc'[w].pc = "idle")
            => /\ Len(cyc[w].records) >= 1
               /\ \A id \in RecordIds(cyc[w].records) :
                    \E r \in rows' : r.id = id /\ r.summarized = 1

AllSummarized == \A r \in rows : r.summarized = 1

\* A cycle that starts when ingestion has stopped and every row is
\* summarized answers that there is nothing new.
NothingLeftToDo ==
    \A w \in Workers :
        (telPc = "stopped" /\ AllSummarized /\ cyc[w].pc = "idle" /\ cyc'[w].pc # "idle")
            => cyc'[w] = Replying("nothing_new")

\* C24: the limit of every /summary command is between 1 and 200, and 50 when
\* the argument is missing or not a number; the mark of every successful cycle
\* has at least one row to mark and leaves it summarized; and when ingestion
\* has stopped and cycles keep being run and keep succeeding, from some time
\* on every stored message is summarized and every cycle that starts then
\* reports nothing to do.
C24_SummarizationProgress ==
    /\ []LimitInRange
    /\ [][SuccessfulCycleMarks]_vars
    /\ (telPc = "stopped") ~> []AllSummarized
    /\ [][NothingLeftToDo]_vars

\* C24 witness: ingestion has stopped, the stored messages are all summarized
\* and a command without a number, run with the default limit, is answered
\* that there is nothing new.
C24_Witness ==
    /\ telPc = "stopped"
    /\ rows # {}
    /\ AllSummarized
    /\ ret.op = "summary" /\ ret.arg.kind = "text" /\ ret.limit = DefaultLimit
    /\ \E w \in Workers : cyc[w] = Replying("nothing_new")
====
